---------------------------- MODULE Spec2Model ----------------------------
(***************************************************************************)
(* A model of NCCN_guidelines_MCP: the PDF reading core                    *)
(* (src/read_pdf.py, class PDFReader), the server's tools (src/server.py), *)
(* the guideline index (src/nccn_get_index.py) and the downloader          *)
(* (src/nccn_login_downloader.py, class NCCNDownloader).                   *)
(*                                                                         *)
(* Python strings are sequences of one-character strings, so that split,   *)
(* strip, find, int() and re.findall are computed character by character.  *)
(* An optional value is None (the empty tuple) or Some(x) (a 1-tuple).     *)
(* A dict is a function; a call's outcome is a record whose field exc      *)
(* names the exception that left the call ("none" for a normal return).    *)
(***************************************************************************)
EXTENDS Integers, Sequences, FiniteSets, TLC

VARIABLES
    xref_to_page_mapping,        \* PDFReader.xref_to_page_mapping
    named_destinations_mapping,  \* PDFReader.named_destinations_mapping
    reader,                      \* PDFReader.reader
    call,                        \* the method being called and its arguments
    ret,                         \* what the call returned or raised
    pc,                          \* "call": arguments bound; "done": returned
    session,                     \* the requests made on the HTTP client
    files                        \* the files on disk: path to content

vars ==
    <<xref_to_page_mapping, named_destinations_mapping, reader, call, ret, pc,
      session, files>>

---------------------------------------------------------------------------
(* Python values                                                           *)

None == <<>>

Some(x) == <<x>>

EmptyDict == <<>>

\* dict.get(key): None when the key is absent
dict_get(d, key) == IF key \in DOMAIN d THEN Some(d[key]) ELSE None

\* d[key] = value
dict_set(d, key, item) ==
    [k \in (DOMAIN d) \cup {key} |-> IF k = key THEN item ELSE d[k]]

Digits == <<"0", "1", "2", "3", "4", "5", "6", "7", "8", "9">>

isdigit(c) == \E i \in DOMAIN Digits : Digits[i] = c

DigitVal(c) == (CHOOSE i \in DOMAIN Digits : Digits[i] = c) - 1

isspace(c) == c = " " \/ c = "\t" \/ c = "\n"

RECURSIVE lstrip(_)
lstrip(s) == IF s # <<>> /\ isspace(Head(s)) THEN lstrip(Tail(s)) ELSE s

RECURSIVE rstrip(_)
rstrip(s) ==
    IF s # <<>> /\ isspace(s[Len(s)]) THEN rstrip(SubSeq(s, 1, Len(s) - 1)) ELSE s

\* str.strip()
strip(s) == rstrip(lstrip(s))

\* sub occurs in s at (1-based) position i
occurs_at(s, sub, i) ==
    /\ i >= 1
    /\ i + Len(sub) - 1 <= Len(s)
    /\ SubSeq(s, i, i + Len(sub) - 1) = sub

\* sub in s
contains(s, sub) == \E i \in 1..(Len(s) + 1) : occurs_at(s, sub, i)

\* str.find(sub), 1-based; 0 when sub does not occur (Python: 0-based, -1)
find(s, sub) ==
    IF contains(s, sub)
    THEN CHOOSE i \in 1..(Len(s) + 1) :
            /\ occurs_at(s, sub, i)
            /\ \A j \in 1..(i - 1) : ~occurs_at(s, sub, j)
    ELSE 0

\* str.split(sep): every non-overlapping occurrence of sep, left to right
RECURSIVE split(_, _)
split(s, sep) ==
    LET i == find(s, sep)
    IN  IF i = 0 THEN <<s>>
        ELSE <<SubSeq(s, 1, i - 1)>> \o split(SubSeq(s, i + Len(sep), Len(s)), sep)

\* str.split(sep, 1): at the first occurrence of sep only
split1(s, sep) ==
    LET i == find(s, sep)
    IN  IF i = 0 THEN <<s>>
        ELSE <<SubSeq(s, 1, i - 1), SubSeq(s, i + Len(sep), Len(s))>>

\* the value of a run of decimal digits (underscores skipped, as int() does)
RECURSIVE DecVal(_)
DecVal(d) ==
    IF d = <<>> THEN 0
    ELSE IF d[Len(d)] = "_" THEN DecVal(SubSeq(d, 1, Len(d) - 1))
    ELSE 10 * DecVal(SubSeq(d, 1, Len(d) - 1)) + DigitVal(d[Len(d)])

\* the digits of int(): a digit first and last, single underscores between
int_wellformed(d) ==
    /\ d # <<>>
    /\ isdigit(d[1])
    /\ isdigit(d[Len(d)])
    /\ \A i \in 1..Len(d) : isdigit(d[i]) \/ d[i] = "_"
    /\ \A i \in 1..(Len(d) - 1) : ~(d[i] = "_" /\ d[i + 1] = "_")

\* int() of the digits d after the sign
int_digits(neg, d) ==
    IF int_wellformed(d)
    THEN [exc |-> "none", val |-> IF neg THEN 0 - DecVal(d) ELSE DecVal(d)]
    ELSE [exc |-> "ValueError", val |-> 0]

\* int() of a stripped string: one optional sign, then the digits
int_signed(t) ==
    IF t # <<>> /\ (Head(t) = "-" \/ Head(t) = "+")
    THEN int_digits(Head(t) = "-", Tail(t))
    ELSE int_digits(FALSE, t)

\* int(s) of a str: surrounding whitespace, one optional sign, then digits
\* (single underscores between digits allowed); anything else is ValueError
int(s) == int_signed(strip(s))

\* list(range(a, b)): a, a+1, ..., b-1
range(a, b) == [i \in 1..(IF b > a THEN b - a ELSE 0) |-> a + i - 1]

\* sorted(set(xs))
RECURSIVE SortedOf(_)
SortedOf(S) ==
    IF S = {} THEN <<>>
    ELSE LET m == CHOOSE x \in S : \A y \in S : x <= y
         IN  <<m>> \o SortedOf(S \ {m})

\* the list returned as collected
sorted_set_Unsorted(xs) == xs

sorted_set(xs) == SortedOf({xs[i] : i \in DOMAIN xs})

---------------------------------------------------------------------------
(* PDFReader.parse_pages                                                   *)

\* a truth test that lets only None through
not_pages_str_NoneOnly(pages_str) == pages_str = None

\* `if not pages_str`: None or the empty string
not_pages_str(pages_str) == pages_str = None \/ pages_str = Some(<<>>)

\* the negative-indexing assignments (lines 155-158 and 173-174)
negative_index(page, total_pages) ==
    IF page < 0 THEN total_pages + page + 1 ELSE page

\* the range taken as written, without the swap
swap_if_reversed_NoSwap(start_page, end_page) == <<start_page, end_page>>

\* `if start_page > end_page: start_page, end_page = end_page, start_page`
swap_if_reversed(start_page, end_page) ==
    IF start_page > end_page THEN <<end_page, start_page>>
    ELSE <<start_page, end_page>>

\* the loop of lines 167-169 over range(start_page, end_page + 1)
range_pages(start_page, end_page, total_pages) ==
    LET all  == range(start_page, end_page + 1)
        ok(p) == 1 <= p /\ p <= total_pages
        kept == SelectSeq(all, ok)
    IN  [i \in DOMAIN kept |-> kept[i] - 1]

\* lines 154-169, once both ends of the range are parsed
range_part(start, end, total_pages) ==
    IF start <= 0 \/ end <= 0 THEN <<>>
    ELSE range_pages(swap_if_reversed(start, end)[1],
                     swap_if_reversed(start, end)[2], total_pages)

\* lines 151-169: the two int() calls in order, then the range
range_part_of(start, end, total_pages) ==
    IF start.exc # "none" THEN [exc |-> start.exc, pages |-> <<>>]
    ELSE IF end.exc # "none" THEN [exc |-> end.exc, pages |-> <<>>]
    ELSE [exc |-> "none",
          pages |-> range_part(negative_index(start.val, total_pages),
                               negative_index(end.val, total_pages),
                               total_pages)]

\* lines 178-179: the page appended when it is one of the document
single_page(page_num, total_pages) ==
    IF 1 <= page_num /\ page_num <= total_pages THEN <<page_num - 1>> ELSE <<>>

\* lines 172-179, n being int(part)
single_part_of(n, total_pages) ==
    IF n.exc # "none" THEN [exc |-> n.exc, pages |-> <<>>]
    ELSE IF n.val < 0
    THEN [exc |-> "none",
          pages |-> single_page(total_pages + n.val + 1, total_pages)]
    ELSE IF n.val <= 0 THEN [exc |-> "none", pages |-> <<>>]
    ELSE [exc |-> "none", pages |-> single_page(n.val, total_pages)]

\* str.split('-', 1) of a part that holds a hyphen, each side stripped
range_strs(strs) == <<strip(strs[1]), strip(strs[2])>>

\* the body of the try block for one stripped, non-empty part (lines 148-179):
\* the pages it appends, or the exception int() raises before any append
parse_part(part, total_pages) ==
    IF contains(part, <<"-">>)
    THEN range_part_of(int(range_strs(split1(part, <<"-">>))[1]),
                       int(range_strs(split1(part, <<"-">>))[2]),
                       total_pages)
    ELSE single_part_of(int(part), total_pages)

\* a handler that catches nothing
except_ValueError_Missing(exc) == FALSE

\* `except ValueError:` (line 181)
except_ValueError(exc) == exc = "ValueError"

\* lines 147-184 for one stripped, non-empty part whose try block gave r:
\* the pages so far, and the exception when it is not caught
after_part(r, pages) ==
    IF r.exc = "none" THEN [exc |-> "none", pages |-> pages \o r.pages]
    ELSE IF except_ValueError(r.exc) THEN [exc |-> "none", pages |-> pages]
    ELSE [exc |-> r.exc, pages |-> pages]

\* the for loop of lines 142-184 over the comma-separated parts
RECURSIVE parse_parts(_, _, _)
RECURSIVE parse_parts_next(_, _, _)
parse_parts(parts, total_pages, pages) ==
    IF parts = <<>> THEN [exc |-> "none", pages |-> pages]
    ELSE IF strip(Head(parts)) = <<>>
    THEN parse_parts(Tail(parts), total_pages, pages)
    ELSE parse_parts_next(
             after_part(parse_part(strip(Head(parts)), total_pages), pages),
             Tail(parts), total_pages)

\* the next iteration, unless an exception left the loop
parse_parts_next(r, parts, total_pages) ==
    IF r.exc = "none" THEN parse_parts(parts, total_pages, r.pages) ELSE r

\* line 186, or the exception that left the loop
parse_pages_return(r) ==
    IF r.exc = "none" THEN [exc |-> "none", value |-> sorted_set(r.pages)]
    ELSE [exc |-> r.exc, value |-> <<>>]

parse_pages(pages_str, total_pages) ==
    IF not_pages_str(pages_str)
    THEN [exc |-> "none", value |-> range(0, total_pages)]
    ELSE parse_pages_return(
             parse_parts(split(pages_str[1], <<",">>), total_pages, <<>>))

---------------------------------------------------------------------------
(* Inputs of parse_pages                                                   *)

MaxSpecLen == 4

MaxTotalPages == 3

PageSpecChars == {"0", "1", "2", "-", ",", " ", "a"}

\* every string over alphabet A of length at most n
StringsUpTo(A, n) == UNION {[1..k -> A] : k \in 0..n}

\* the page specs the documentation and the examples use
ExamplePageCalls ==
    { <<Some(<<"-", "1">>), 10>>,
      <<Some(<<"5", "-", "2">>), 10>>,
      <<Some(<<"2", ",", "a", "b", "c", ",", "4", "-", "6">>), 6>>,
      <<Some(<<"-", "3", "-", "-", "1">>), 10>>,
      <<Some(<<"1", ",", "3", ",", "5", "-", "7">>), 10>>,
      <<Some(<<"2", "-", "-", "1">>), 10>>,
      <<Some(<<"-", "3", "-", "5">>), 10>>,
      <<Some(<<"+", "2", "-", "1", "_", "0">>), 12>>,
      <<None, 10>> }

PageCalls ==
    ({None} \cup {Some(s) : s \in StringsUpTo(PageSpecChars, MaxSpecLen)})
        \X (0..MaxTotalPages)
    \cup ExamplePageCalls

InitPages ==
    /\ xref_to_page_mapping = EmptyDict
    /\ named_destinations_mapping = EmptyDict
    /\ reader = None
    /\ \E c \in PageCalls :
          call = [pages_str |-> c[1], total_pages |-> c[2], op |-> "parse_pages"]
    /\ ret = None
    /\ pc = "call"
    /\ session = <<>>
    /\ files = EmptyDict

ParsePages ==
    /\ pc = "call"
    /\ call.op = "parse_pages"
    /\ ret' = parse_pages(call.pages_str, call.total_pages)
    /\ pc' = "done"
    /\ UNCHANGED <<session, files>>
    /\ UNCHANGED <<xref_to_page_mapping, named_destinations_mapping, reader, call>>

NextPages == ParsePages

SpecPages == InitPages /\ [][NextPages]_vars

---------------------------------------------------------------------------
(* The document pypdf hands to PDFReader                                   *)
(*                                                                         *)
(* reader.pages is a sequence of pages; a page has                         *)
(*   idnum   Some(object id), or None when page.get_object() has no        *)
(*           indirect_reference                                            *)
(*   annots  [present, items]: whether the page has an /Annots entry, and  *)
(*           its annotations                                               *)
(* An annotation has a kind and, for a GoTo action, the target str(/D):    *)
(*   "GoTo"      /A with /S = /GoTo                                        *)
(*   "NoAction"  no /A entry (or an empty one, or /A without /S)           *)
(*   "Other"     /A with another /S                                        *)
(*   "Raises"    reading the annotation raises                             *)
(* reader.named_destinations is a sequence of entries [name, page], page   *)
(* being Some(object id) or None when dest.page has no idnum.              *)

NoAnnots == [present |-> FALSE, items |-> <<>>]

Annots(items) == [present |-> TRUE, items |-> items]

GoTo(target) == [target |-> target, kind |-> "GoTo"]
\* an annotation without /A (or with an empty /A, or /A without /S)
NoAction == [target |-> <<>>, kind |-> "NoAction"]

\* an annotation whose /A has another /S than /GoTo
OtherAction == [target |-> <<>>, kind |-> "Other"]

\* an annotation whose get_object(), /A or /D raises when read
RaisesAnnot == [target |-> <<>>, kind |-> "Raises"]


---------------------------------------------------------------------------
(* PDFReader.build_xref_to_page_mapping                                    *)

\* the 0-based position stored where the 1-based page number is meant
RECURSIVE build_xref_loop_ZeroBased(_, _, _)
build_xref_loop_ZeroBased(pages, page_num, mapping) ==
    IF page_num >= Len(pages) THEN [exc |-> "none", mapping |-> mapping]
    ELSE IF pages[page_num + 1].idnum = None
    THEN [exc |-> "AttributeError", mapping |-> mapping]
    ELSE build_xref_loop_ZeroBased(
             pages, page_num + 1,
             dict_set(mapping, pages[page_num + 1].idnum[1], page_num))

\* the for loop of lines 49-52 from page_num on: the mapping built, and the
\* AttributeError of `.indirect_reference.idnum` on a page without reference
RECURSIVE build_xref_loop(_, _, _)
build_xref_loop(pages, page_num, mapping) ==
    IF page_num >= Len(pages) THEN [exc |-> "none", mapping |-> mapping]
    ELSE LET page == pages[page_num + 1]
         IN  IF page.idnum = None
             THEN [exc |-> "AttributeError", mapping |-> mapping]
             ELSE build_xref_loop(pages, page_num + 1,
                                  dict_set(mapping, page.idnum[1], page_num + 1))

build_xref_to_page_mapping(rdr) == build_xref_loop(rdr.pages, 0, EmptyDict)

---------------------------------------------------------------------------
(* PDFReader.build_named_destinations_mapping                              *)

\* the loop left at the first destination whose object id is no key of the
\* xref table
RECURSIVE build_named_loop_StopsAtDangling(_, _, _)
build_named_loop_StopsAtDangling(items, xref, mapping) ==
    IF items = <<>> THEN mapping
    ELSE IF Head(items).page # None /\ dict_get(xref, Head(items).page[1]) = None
    THEN mapping
    ELSE build_named_loop_StopsAtDangling(
             Tail(items), xref,
             IF Head(items).page # None
             THEN dict_set(mapping, Head(items).name,
                           dict_get(xref, Head(items).page[1])[1])
             ELSE mapping)

\* the for loop of lines 62-70 over reader.named_destinations.items()
RECURSIVE build_named_loop(_, _, _)
build_named_loop(items, xref, mapping) ==
    IF items = <<>> THEN mapping
    ELSE LET dest     == Head(items)
             page_num == IF dest.page = None THEN None
                         ELSE dict_get(xref, dest.page[1])
         IN  build_named_loop(Tail(items), xref,
                              IF page_num # None /\ page_num[1] # 0
                              THEN dict_set(mapping, dest.name, page_num[1])
                              ELSE mapping)

build_named_destinations_mapping(rdr, xref) ==
    build_named_loop(rdr.named_destinations, xref, EmptyDict)

---------------------------------------------------------------------------
(* PDFReader.extract_internal_links                                        *)

Marker == <<"i", "n", "d", "d", ":">>

\* the length of the run of digits s starts with
RECURSIVE digit_run(_)
digit_run(s) ==
    IF s # <<>> /\ isdigit(Head(s)) THEN 1 + digit_run(Tail(s)) ELSE 0

\* re.findall(r'\d+', s): the maximal runs of digits, left to right
RECURSIVE findall_digits(_)
findall_digits(s) ==
    IF s = <<>> THEN <<>>
    ELSE IF ~isdigit(Head(s)) THEN findall_digits(Tail(s))
    ELSE LET n == digit_run(s)
         IN  <<SubSeq(s, 1, n)>> \o findall_digits(SubSeq(s, n + 1, Len(s)))

\* a lookup that is never tried
in_named_destinations_Skipped(target, named) == FALSE

\* `if target in self.named_destinations_mapping` (line 95)
in_named_destinations(target, named) == target \in DOMAIN named

\* the last number where the first is meant
generic_number_Last(numbers) == numbers[Len(numbers)]

\* `numbers[0]` (line 117)
generic_number(numbers) == numbers[1]

\* `numbers[-1]` (line 107)
indd_number(numbers) == numbers[Len(numbers)]

\* `target.split("indd:")[1]` (line 101)
indd_target_parts(target) == split(target, Marker)[2]

\* the lookup in the xref table; a ValueError of int() is passed over
xref_lookup(xref_num, xref) ==
    IF xref_num.exc = "none" THEN dict_get(xref, xref_num.val) ELSE None

\* lines 104-110, numbers being the integers after the marker
indd_target_page(numbers, xref) ==
    IF numbers # <<>> THEN xref_lookup(int(indd_number(numbers)), xref) ELSE None

\* lines 114-120, numbers being the integers of the target
generic_target_page(numbers, xref) ==
    IF numbers # <<>> THEN xref_lookup(int(generic_number(numbers)), xref) ELSE None

\* target_page as lines 92-120 leave it: None or Some(page number)
resolve_target(target, named, xref) ==
    IF in_named_destinations(target, named) THEN Some(named[target])
    ELSE IF contains(target, Marker)
    THEN indd_target_page(findall_digits(indd_target_parts(target)), xref)
    ELSE generic_target_page(findall_digits(target), xref)

\* the loop left at the first annotation whose processing raises
RECURSIVE links_loop_StopsAtRaise(_, _, _, _, _)
links_loop_StopsAtRaise(items, page_num, named, xref, links) ==
    IF items = <<>> \/ Head(items).kind = "Raises" THEN links
    ELSE links_loop_StopsAtRaise(Tail(items), page_num, named, xref,
             IF Head(items).kind = "GoTo"
             THEN Append(links,
                         [target      |-> Head(items).target,
                          source_page |-> page_num + 1,
                          target_page |-> resolve_target(Head(items).target,
                                                         named, xref)])
             ELSE links)

\* the for loop of lines 85-130 over the annotations: the links appended
RECURSIVE links_loop(_, _, _, _, _)
links_loop(items, page_num, named, xref, links) ==
    IF items = <<>> THEN links
    ELSE LET annot == Head(items)
         IN  links_loop(Tail(items), page_num, named, xref,
                 IF annot.kind = "GoTo"
                 THEN Append(links,
                             [target      |-> annot.target,
                              source_page |-> page_num + 1,
                              target_page |-> resolve_target(annot.target,
                                                             named, xref)])
                 ELSE links)

extract_internal_links(page, page_num, named, xref) ==
    IF page.annots.present /\ page.annots.items # <<>>
    THEN links_loop(page.annots.items, page_num, named, xref, <<>>)
    ELSE <<>>

---------------------------------------------------------------------------
(* Inputs of extract_internal_links: the tables of a document and one      *)
(* GoTo annotation on one of its pages                                     *)

MaxTokens == 4

MaxLinkPages == 2

LinkTokens == {Marker, <<"1">>, <<"2">>, <<":">>}

\* every concatenation of at most n tokens
RECURSIVE TargetsUpTo(_)
TargetsUpTo(n) ==
    IF n = 0 THEN {<<>>}
    ELSE LET T == TargetsUpTo(n - 1)
         IN  T \cup {t \o k : t \in T, k \in LinkTokens}

LinkIds == {1, 2, 12}

LinkNames == {<<"1">>, Marker \o <<"1">>}

\* the sequences of distinct object ids of at most n pages, not empty
IdSeqs(n) ==
    {ids \in UNION {[1..k -> LinkIds] : k \in 1..n} :
        \A i, j \in DOMAIN ids : i # j => ids[i] # ids[j]}

LinkDests ==
    {<<>>} \cup {<<[page |-> Some(id), name |-> nm]>> : nm \in LinkNames, id \in {1, 2}}

\* the targets of section 8: "indd:12:34:56" and "78 0 R"
ExampleLinkCalls ==
    { [page_num |-> 1,
       target |-> Marker \o <<"1", "2", ":", "3", "4", ":", "5", "6">>,
       ids |-> <<56, 12, 34>>, dests |-> <<>>],
      [page_num |-> 0, target |-> <<"7", "8", " ", "0", " ", "R">>,
       ids |-> <<0, 78>>, dests |-> <<>>] }

LinkCalls ==
    {[page_num |-> page_num, target |-> target, ids |-> ids, dests |-> dests] :
        ids \in IdSeqs(MaxLinkPages), dests \in LinkDests,
        page_num \in {0}, target \in TargetsUpTo(MaxTokens)}
    \cup ExampleLinkCalls

\* the document of a call: its pages in order, the annotation on one of them
LinkDocument(c) ==
    [pages |-> [i \in DOMAIN c.ids |->
                  [idnum  |-> Some(c.ids[i]),
                   annots |-> IF i = c.page_num + 1
                              THEN Annots(<<GoTo(c.target)>>) ELSE NoAnnots]],
     named_destinations |-> c.dests]

InitLinks ==
    \E c \in LinkCalls :
        LET doc == LinkDocument(c)
        IN  /\ reader = Some(doc)
            /\ xref_to_page_mapping = build_xref_to_page_mapping(doc).mapping
            /\ named_destinations_mapping =
                  build_named_destinations_mapping(
                      doc, build_xref_to_page_mapping(doc).mapping)
            /\ call = [page |-> doc.pages[c.page_num + 1],
                       page_num |-> c.page_num,
                       op |-> "extract_internal_links"]
            /\ ret = None
            /\ pc = "call"
            /\ session = <<>>
            /\ files = EmptyDict

ExtractInternalLinks ==
    /\ pc = "call"
    /\ call.op = "extract_internal_links"
    /\ ret' = extract_internal_links(call.page, call.page_num,
                                     named_destinations_mapping,
                                     xref_to_page_mapping)
    /\ pc' = "done"
    /\ UNCHANGED <<session, files>>
    /\ UNCHANGED <<xref_to_page_mapping, named_destinations_mapping, reader, call>>

NextLinks == ExtractInternalLinks

SpecLinks == InitLinks /\ [][NextLinks]_vars

---------------------------------------------------------------------------
(* PDFReader.extract_text_with_layout, extract_page_content,               *)
(* format_page_content                                                     *)
(*                                                                         *)
(* A page's layout and plain fields are what page.extract_text returns in  *)
(* each mode: [exc, text]. A formatted page is the list `result` of        *)
(* format_page_content, one record per appended line.                      *)

Text(t) == [exc |-> "none", text |-> t]

TextRaises == [exc |-> "Exception", text |-> ""]

\* no second attempt in the plain mode
extract_text_with_layout_NoFallback(page) ==
    IF page.layout.exc = "none" THEN page.layout.text ELSE ""

extract_text_with_layout(page) ==
    IF page.layout.exc = "none" THEN page.layout.text
    ELSE IF page.plain.exc = "none" THEN page.plain.text
    ELSE ""

extract_page_content(page, page_num, named, xref) ==
    [text           |-> extract_text_with_layout(page),
     page_number    |-> page_num + 1,
     internal_links |-> extract_internal_links(page, page_num, named, xref)]

Line(kind, n, text, page) == [page |-> page, n |-> n, kind |-> kind, text |-> text]

\* lines 240-242: what precedes the first colon
before_colon(target) ==
    IF contains(target, <<":">>) THEN split(target, <<":">>)[1] ELSE target

\* the target as lines 234-242 clean it for display
clean_target(target) ==
    IF contains(target, Marker)
    THEN before_colon(SubSeq(target, find(target, Marker) + 5, Len(target)))
    ELSE target

\* lines for the links that have a page only
link_lines_ResolvedOnly(links) ==
    LET resolved(link) == link.target_page # None
    IN  [i \in DOMAIN SelectSeq(links, resolved) |->
            Line("Link", i, clean_target(SelectSeq(links, resolved)[i].target),
                 SelectSeq(links, resolved)[i].target_page)]

\* the lines of lines 232-247, one per link
link_lines(links) ==
    [i \in DOMAIN links |->
        Line("Link", i, clean_target(links[i].target),
             IF links[i].target_page # None /\ links[i].target_page[1] # 0
             THEN links[i].target_page ELSE None)]

\* the links section under a page that has a resolved link only
format_page_content_SectionWhenResolved(content) ==
    LET resolved(link) == link.target_page # None
    IN  <<Line("Page", content.page_number, <<>>, None)>>
        \o (IF content.text # "" THEN <<Line("Text", 0, content.text, None)>> ELSE <<>>)
        \o (IF SelectSeq(content.internal_links, resolved) # <<>>
            THEN <<Line("Internal Links:", 0, <<>>, None), Line("----", 0, <<>>, None)>>
                 \o link_lines(content.internal_links)
                 \o <<Line("", 0, <<>>, None)>>
            ELSE <<>>)

\* lines 220-250: the lines of the formatted page, joined by newlines
format_page_content(content) ==
    <<Line("Page", content.page_number, <<>>, None)>>
    \o (IF content.text # "" THEN <<Line("Text", 0, content.text, None)>> ELSE <<>>)
    \o (IF content.internal_links # <<>>
        THEN <<Line("Internal Links:", 0, <<>>, None), Line("----", 0, <<>>, None)>>
             \o link_lines(content.internal_links)
             \o <<Line("", 0, <<>>, None)>>
        ELSE <<>>)

---------------------------------------------------------------------------
(* PDFReader.extract_content                                               *)

\* the selected pages taken from the last to the first
extracted_contents_Reversed(rdr, selected_pages, named, xref) ==
    LET in_document(page_num) == page_num < Len(rdr.pages)
        sel == SelectSeq(selected_pages, in_document)
    IN  [i \in DOMAIN sel |->
            format_page_content(
                extract_page_content(rdr.pages[sel[Len(sel) + 1 - i] + 1],
                                     sel[Len(sel) + 1 - i], named, xref))]

\* the for loop of lines 276-282: one formatted block per selected page
extracted_contents(rdr, selected_pages, named, xref) ==
    LET in_document(page_num) == page_num < Len(rdr.pages)
        sel == SelectSeq(selected_pages, in_document)
    IN  [i \in DOMAIN sel |->
            format_page_content(
                extract_page_content(rdr.pages[sel[i] + 1], sel[i], named, xref))]

\* line 285: "\n\n".join(extracted_contents), as the lines of the string it
\* makes: between the lines of one block and those of the next, one empty
\* line
RECURSIVE join(_)
join(blocks) ==
    IF blocks = <<>> THEN <<>>
    ELSE IF Len(blocks) = 1 THEN blocks[1]
    ELSE blocks[1] \o <<Line("", 0, <<>>, None)>> \o join(Tail(blocks))

Raised(cause) == [exc |-> "ValueError", value |-> <<>>, cause |-> cause]

\* an exception of a page's text extraction that reaches the handler of
\* extract_content
extract_selected_PageFaultAborts(rdr, xref, named, selected) ==
    IF selected.exc # "none"
    THEN [ret |-> Raised(selected.exc), self |-> <<xref, named, Some(rdr)>>]
    ELSE IF \E i \in DOMAIN selected.value :
               /\ selected.value[i] < Len(rdr.pages)
               /\ rdr.pages[selected.value[i] + 1].layout.exc # "none"
               /\ rdr.pages[selected.value[i] + 1].plain.exc # "none"
    THEN [ret |-> Raised("Exception"), self |-> <<xref, named, Some(rdr)>>]
    ELSE [ret  |-> [exc |-> "none",
                    value |-> extracted_contents(rdr, selected.value, named, xref),
                    cause |-> ""],
          self |-> <<xref, named, Some(rdr)>>]

\* lines 270-285, with both tables built
extract_selected(rdr, xref, named, selected) ==
    [ret  |-> IF selected.exc # "none" THEN Raised(selected.exc)
              ELSE [exc |-> "none",
                    value |-> extracted_contents(rdr, selected.value, named, xref),
                    cause |-> ""],
     self |-> <<xref, named, Some(rdr)>>]

\* the named destinations added to those of the call before, without the
\* reset of line 58
extract_indexed_NoReset(self, rdr, xref, pages) ==
    IF xref.exc # "none"
    THEN [ret |-> Raised(xref.exc), self |-> <<xref.mapping, self[2], Some(rdr)>>]
    ELSE extract_selected(rdr, xref.mapping,
                          build_named_loop(rdr.named_destinations, xref.mapping,
                                           self[2]),
                          parse_pages(pages, Len(rdr.pages)))

\* lines 265-285, xref being what build_xref_to_page_mapping did: when it
\* raised, the table is left as far as it got and the named destinations
\* as they were
extract_indexed(self, rdr, xref, pages) ==
    IF xref.exc # "none"
    THEN [ret |-> Raised(xref.exc), self |-> <<xref.mapping, self[2], Some(rdr)>>]
    ELSE extract_selected(rdr, xref.mapping,
                          build_named_destinations_mapping(rdr, xref.mapping),
                          parse_pages(pages, Len(rdr.pages)))

\* what one call does to the reader object and what it returns or raises.
\* file is what PdfReader(pdf_path) finds: [readable, doc].
\* self is <<xref_to_page_mapping, named_destinations_mapping, reader>>.
extract_content(self, pdf_path, file, pages) ==
    IF pdf_path = ""
    THEN [ret |-> Raised("PDF path cannot be empty"), self |-> self]
    ELSE IF ~file.readable
    THEN [ret |-> Raised("PdfReader"), self |-> self]
    ELSE extract_indexed(self, file.doc,
                         build_xref_to_page_mapping(file.doc), pages)

---------------------------------------------------------------------------
(* The reader object of the server (server.py: pdf_reader = PDFReader())   *)
(* and the calls of extract_content made on it                             *)

MaxPages == 2

\* a page whose text cannot be extracted in either mode and whose one
\* annotation cannot be read
FaultyPage ==
    [idnum  |-> Some(2),
     annots |-> Annots(<<RaisesAnnot>>),
     layout |-> TextRaises,
     plain  |-> TextRaises]

\* the pages of the documents: with or without an object id to resolve,
\* with or without a GoTo annotation, and the faulty page
DocPages ==
    {[idnum  |-> idnum,
      annots |-> NoAnnots,
      layout |-> Text("L"),
      plain  |-> Text("P")] : idnum \in {None, Some(1), Some(2)}}
    \cup {[idnum  |-> Some(1),
           annots |-> Annots(<<GoTo(<<"1">>)>>),
           layout |-> Text("L"),
           plain  |-> Text("P")]}
    \cup {FaultyPage}

DocDests == {<<>>, <<[page |-> Some(2), name |-> <<"1">>]>>}

Documents ==
    {[pages |-> pages, named_destinations |-> dests] :
        pages \in UNION {[1..k -> DocPages] : k \in 0..MaxPages},
        dests \in DocDests}

\* what PdfReader(pdf_path) finds at a path: a document, or nothing it can read
Files == {[doc |-> doc, readable |-> TRUE] : doc \in Documents}

NoFile == [doc |-> [pages |-> <<>>, named_destinations |-> <<>>], readable |-> FALSE]

PagesArgs ==
    {None, Some(<<"-", "1">>), Some(<<"2", ",", "1">>), Some(<<"1", ",", "1">>)}

\* the calls: an empty path, a path to nothing readable, a path to a document
ContentCalls ==
    {[pages |-> pages, pdf_path |-> "", file |-> NoFile] : pages \in PagesArgs}
    \cup {[pages |-> pages, pdf_path |-> "a.pdf", file |-> file] :
             pages \in PagesArgs, file \in Files \cup {NoFile}}

Init ==
    /\ xref_to_page_mapping = EmptyDict
    /\ named_destinations_mapping = EmptyDict
    /\ reader = None
    /\ call = [op |-> "__init__"]
    /\ ret = None
    /\ pc = "done"
    /\ session = <<>>
    /\ files = EmptyDict

ExtractContent(c) ==
    \E r \in {extract_content(
                  <<xref_to_page_mapping, named_destinations_mapping, reader>>,
                  c.pdf_path, c.file, c.pages)} :
        /\ pc = "done"
        /\ call' = [pages |-> c.pages, op |-> "extract_content",
                    pdf_path |-> c.pdf_path, file |-> c.file]
        /\ xref_to_page_mapping' = r.self[1]
        /\ named_destinations_mapping' = r.self[2]
        /\ reader' = r.self[3]
        /\ ret' = r.ret
        /\ pc' = "done"
        /\ UNCHANGED <<session, files>>

Next == \E c \in ContentCalls : ExtractContent(c)

Spec == Init /\ [][Next]_vars

---------------------------------------------------------------------------
(* The extract_content tool of the server (server.py, lines 197-234) and   *)
(* the invocations the event loop runs on the one pdf_reader               *)
(*                                                                         *)
(* A tool result is [kind, text]: the string returned, kind naming which   *)
(* return statement made it and text its parts (the formatted blocks when  *)
(* the content is returned).                                               *)

\* os.path.isabs, on the paths of the model
isabs(pdf_path) == pdf_path = "/a.pdf"

\* lines 213-223: the path handed to the reader, None when the relative
\* path is found neither under downloads nor under the current directory
resolve_pdf_path(pdf_path, found) ==
    IF isabs(pdf_path) THEN Some(pdf_path)
    ELSE IF ~found THEN None
    ELSE IF pdf_path = "" THEN Some("/downloads")
    ELSE Some("/downloads/a.pdf")

\* the wrapping message without the str(e) of the cause
Message_NoCause(r) ==
    IF r.cause = "PDF path cannot be empty" THEN <<r.cause>>
    ELSE <<"Failed to extract PDF content: ">>

\* str(e) of what PDFReader.extract_content raised (lines 254-255, 289)
Message(r) ==
    IF r.cause = "PDF path cannot be empty" THEN <<r.cause>>
    ELSE <<"Failed to extract PDF content: ", r.cause>>

\* `pages or 'all'` (line 229)
pages_or_all(pages) == IF not_pages_str(pages) THEN <<"a", "l", "l">> ELSE pages[1]

\* lines 226-234, r being what pdf_reader.extract_content returned or raised
tool_return(pdf_path, pages, r) ==
    IF r.exc # "none"
    THEN [kind |-> "error",
          text |-> <<"Error extracting content from PDF: ">> \o Message(r)]
    ELSE IF r.value = <<>>
    THEN [kind |-> "empty",
          text |-> <<"No content extracted from ", pdf_path, pages_or_all(pages)>>]
    ELSE [kind |-> "content", text |-> r.value]

\* lines 254-268 of PDFReader.extract_content, xref being what
\* build_xref_to_page_mapping did: the reader opened and both tables built
indexed(self, rdr, xref) ==
    IF xref.exc # "none"
    THEN [ret |-> Raised(xref.exc), self |-> <<xref.mapping, self[2], Some(rdr)>>]
    ELSE [ret |-> [exc |-> "none", value |-> <<>>, cause |-> ""],
          self |-> <<xref.mapping,
                     build_named_destinations_mapping(rdr, xref.mapping),
                     Some(rdr)>>]

open_and_index(self, pdf_path, file) ==
    IF pdf_path = ""
    THEN [ret |-> Raised("PDF path cannot be empty"), self |-> self]
    ELSE IF ~file.readable
    THEN [ret |-> Raised("PdfReader"), self |-> self]
    ELSE indexed(self, file.doc, build_xref_to_page_mapping(file.doc))

\* lines 270-285 on the reader object as it is: total_pages is the local of
\* line 262, the pages and the tables are read from self
select_and_extract(self, pages, total_pages) ==
    extract_selected(self[3][1], self[1], self[2], parse_pages(pages, total_pages))

\* the whole tool on a reader, path being resolve_pdf_path's result
tool_on_path(self, path, c) ==
    IF path = None
    THEN [ret |-> [kind |-> "not found", text |-> <<"PDF file not found: ", c.pdf_path>>],
          self |-> self]
    ELSE \* one call of pdf_reader.extract_content (line 226)
         LET r == extract_content(self, path[1], c.file, c.pages)
         IN  [ret |-> tool_return(path[1], c.pages, r.ret), self |-> r.self]

extract_content_tool(self, c) ==
    tool_on_path(self, resolve_pdf_path(c.pdf_path, c.found), c)

\* an await between the building of the tables and the extraction
suspends_AfterTables(at) == at = "tables_built"

\* whether an invocation that got to `at` gives the event loop to another:
\* the tool has no await and PDFReader.extract_content is a plain method
suspends(at) == FALSE

\* lines 213-268 for one invocation: the tool's return when it ends there,
\* and where the invocation is then
begin_on_path(self, path, c, r) ==
    IF path = None
    THEN [ret  |-> [kind |-> "not found",
                    text |-> <<"PDF file not found: ", c.pdf_path>>],
          self |-> self, at |-> "done"]
    ELSE IF r.ret.exc # "none"
    THEN [ret |-> tool_return(path[1], c.pages, r.ret), self |-> r.self, at |-> "done"]
    ELSE [ret |-> None, self |-> r.self, at |-> "tables_built"]

begin_invocation(self, path, c) ==
    begin_on_path(self, path, c,
                  IF path = None THEN [ret |-> Raised(""), self |-> self]
                  ELSE open_and_index(self, path[1], c.file))

\* lines 270-285 and 226-234 for one invocation
finish_invocation(self, path, c) ==
    tool_return(path[1], c.pages,
                select_and_extract(self, c.pages, Len(c.file.doc.pages)).ret)

---------------------------------------------------------------------------
(* Invocations of the tool submitted together (SpecServer)                 *)

MaxTasks == 2

Tasks == 1..MaxTasks

PlainPage(idnum) ==
    [idnum |-> idnum, annots |-> NoAnnots, layout |-> Text("L"), plain |-> Text("P")]

LinkPage(idnum) ==
    [idnum  |-> idnum,
     annots |-> Annots(<<GoTo(<<"1">>)>>),
     layout |-> Text("L"),
     plain  |-> Text("P")]

\* documents whose tables send the target "1" to different pages, and one
\* that cannot be indexed
ServerDocuments ==
    { [pages |-> <<LinkPage(Some(1)), PlainPage(Some(2))>>,
       named_destinations |-> <<>>],
      [pages |-> <<PlainPage(Some(2)), LinkPage(Some(1))>>,
       named_destinations |-> <<>>],
      [pages |-> <<LinkPage(Some(1)), PlainPage(Some(2)), PlainPage(Some(12))>>,
       named_destinations |-> <<[page |-> Some(12), name |-> <<"1">>]>>],
      [pages |-> <<PlainPage(None)>>,
       named_destinations |-> <<>>] }

ServerFiles == {[doc |-> doc, readable |-> TRUE] : doc \in ServerDocuments} \cup {NoFile}

ServerPages == {None, Some(<<"-", "1">>)}

\* a relative path that is not found, one that is, an absolute path, and the
\* empty path, which resolves to a directory
ToolCalls ==
    {[pages |-> pages, pdf_path |-> "a.pdf", file |-> NoFile, found |-> FALSE] :
        pages \in ServerPages}
    \cup {[pages |-> pages, pdf_path |-> "a.pdf", file |-> file, found |-> TRUE] :
             pages \in ServerPages, file \in ServerFiles}
    \cup {[pages |-> pages, pdf_path |-> "/a.pdf", file |-> file, found |-> TRUE] :
             pages \in ServerPages, file \in ServerFiles}
    \cup {[pages |-> pages, pdf_path |-> "", file |-> NoFile, found |-> TRUE] :
             pages \in ServerPages}

InitServer ==
    /\ xref_to_page_mapping = EmptyDict
    /\ named_destinations_mapping = EmptyDict
    /\ reader = None
    /\ call \in [Tasks -> ToolCalls]
    /\ ret = [t \in Tasks |-> None]
    /\ pc = [t \in Tasks |-> "submitted"]
    /\ session = <<>>
    /\ files = EmptyDict

\* the event loop runs t when no other invocation is between two of its
\* suspension points
CanRun(t) ==
    \A u \in Tasks \ {t} : pc[u] = "submitted" \/ pc[u] = "done" \/ suspends(pc[u])

ToolBegin(t) ==
    \E r \in {begin_invocation(
                  <<xref_to_page_mapping, named_destinations_mapping, reader>>,
                  resolve_pdf_path(call[t].pdf_path, call[t].found), call[t])} :
        /\ pc[t] = "submitted"
        /\ CanRun(t)
        /\ xref_to_page_mapping' = r.self[1]
        /\ named_destinations_mapping' = r.self[2]
        /\ reader' = r.self[3]
        /\ ret' = [ret EXCEPT ![t] = r.ret]
        /\ pc' = [pc EXCEPT ![t] = r.at]
        /\ UNCHANGED <<session, files>>
        /\ UNCHANGED call

ToolFinish(t) ==
    /\ pc[t] = "tables_built"
    /\ CanRun(t)
    /\ ret' = [ret EXCEPT ![t] =
                  finish_invocation(
                      <<xref_to_page_mapping, named_destinations_mapping, reader>>,
                      resolve_pdf_path(call[t].pdf_path, call[t].found), call[t])]
    /\ pc' = [pc EXCEPT ![t] = "done"]
    /\ UNCHANGED <<session, files>>
    /\ UNCHANGED <<xref_to_page_mapping, named_destinations_mapping, reader, call>>

NextServer == \E t \in Tasks : ToolBegin(t) \/ ToolFinish(t)

SpecServer == InitServer /\ [][NextServer]_vars

---------------------------------------------------------------------------
(* Inputs of extract_page_content and format_page_content: one page of a   *)
(* two-page document, its text in both modes and its annotations           *)

MaxAnnots == 3

\* what page.extract_text can do in one mode: text, no text, an exception
PageTexts(t) == {Text(t), Text(""), TextRaises}

\* targets of GoTo annotations: the object id of a page, an id of no page,
\* no id at all, compound identifiers of a page and of none, a named
\* destination
PageTargets ==
    {<<"1">>, <<"9">>, <<"x">>, Marker \o <<"a", ":", "2">>, Marker \o <<"9">>, <<"n">>}

PageAnnotations ==
    {GoTo(target) : target \in PageTargets} \cup {NoAction, OtherAction, RaisesAnnot}

AnnotSeqs(n) == UNION {[1..k -> PageAnnotations] : k \in 0..n}

ContentPages ==
    {[idnum  |-> Some(1),
      annots |-> annots,
      layout |-> layout,
      plain  |-> plain] :
        annots \in {NoAnnots} \cup {Annots(items) : items \in AnnotSeqs(MaxAnnots)},
        layout \in PageTexts("L"),
        plain \in PageTexts("P")}

OtherPage ==
    [idnum |-> Some(2), annots |-> NoAnnots, layout |-> Text("L"), plain |-> Text("P")]

\* the document that holds page at position page_num, with a destination
\* named "n" on the other page
PageDocument(page, page_num) ==
    [pages |-> IF page_num = 0 THEN <<page, OtherPage>> ELSE <<OtherPage, page>>,
     named_destinations |-> <<[page |-> Some(2), name |-> <<"n">>]>>]

InitPageContent ==
    \E page \in ContentPages, page_num \in {0, 1} :
        \E doc \in {PageDocument(page, page_num)} :
            \E xref \in {build_xref_to_page_mapping(doc).mapping} :
                /\ reader = Some(doc)
                /\ xref_to_page_mapping = xref
                /\ named_destinations_mapping =
                      build_named_destinations_mapping(doc, xref)
                /\ call = [page |-> page, page_num |-> page_num,
                           op |-> "extract_page_content"]
                /\ ret = None
                /\ pc = "call"
                /\ session = <<>>
                /\ files = EmptyDict

\* extract_page_content, then format_page_content on what it returned, as
\* the loop of extract_content does for a page (lines 279-280)
ExtractPageContent ==
    \E content \in {extract_page_content(call.page, call.page_num,
                                         named_destinations_mapping,
                                         xref_to_page_mapping)} :
        /\ pc = "call"
        /\ call.op = "extract_page_content"
        /\ ret' = [content |-> content, formatted |-> format_page_content(content)]
        /\ pc' = "done"
        /\ UNCHANGED <<session, files>>
        /\ UNCHANGED <<xref_to_page_mapping, named_destinations_mapping, reader, call>>

NextPageContent == ExtractPageContent

SpecPageContent == InitPageContent /\ [][NextPageContent]_vars

---------------------------------------------------------------------------
(* The tables of a document and the links resolved with them (SpecTables): *)
(* lines 265-268 of extract_content, then extract_internal_links on every  *)
(* page                                                                    *)

MaxTablePages == 3

MaxDests == 2

TableIds == {None, Some(1), Some(2), Some(12)}

TableTargets == {<<"1">>, <<"1", "2">>, <<"a">>}

\* the pages: the first one may have a GoTo annotation
TablePages(ids, annots) ==
    [i \in DOMAIN ids |->
        [idnum  |-> ids[i],
         annots |-> IF i = 1 THEN annots ELSE NoAnnots,
         layout |-> Text("L"),
         plain  |-> Text("P")]]

DestNames == {<<"a">>, <<"b">>}

\* reader.named_destinations: a dict, so no name twice; a destination's
\* page is an object id of the document or not, or has no idnum
TableDests ==
    {dests \in UNION {[1..k -> [page : TableIds, name : DestNames]] : k \in 0..MaxDests} :
        \A i, j \in DOMAIN dests : i # j => dests[i].name # dests[j].name}

TableDocuments ==
    {[pages |-> TablePages(ids, annots), named_destinations |-> dests] :
        ids \in UNION {[1..k -> TableIds] : k \in 0..MaxTablePages},
        annots \in {NoAnnots} \cup {Annots(<<GoTo(target)>>) : target \in TableTargets},
        dests \in TableDests}

InitTables ==
    /\ reader \in {Some(doc) : doc \in TableDocuments}
    /\ xref_to_page_mapping = EmptyDict
    /\ named_destinations_mapping = EmptyDict
    /\ call = [op |-> "build_xref_to_page_mapping"]
    /\ ret = None
    /\ pc = "call"
    /\ session = <<>>
    /\ files = EmptyDict

\* line 265; when it raises, extract_content ends there
BuildXrefToPageMapping ==
    \E xref \in {build_xref_to_page_mapping(reader[1])} :
        /\ pc = "call"
        /\ xref_to_page_mapping' = xref.mapping
        /\ pc' = IF xref.exc = "none" THEN "indexed" ELSE "failed"
        /\ UNCHANGED <<session, files>>
        /\ UNCHANGED <<named_destinations_mapping, reader, call, ret>>

\* line 268
BuildNamedDestinationsMapping ==
    /\ pc = "indexed"
    /\ named_destinations_mapping' =
          build_named_destinations_mapping(reader[1], xref_to_page_mapping)
    /\ call' = [op |-> "build_named_destinations_mapping"]
    /\ pc' = "named"
    /\ UNCHANGED <<session, files>>
    /\ UNCHANGED <<xref_to_page_mapping, reader, ret>>

\* the links of every page of the document, in page order
ExtractDocumentLinks ==
    /\ pc = "named"
    /\ ret' = [i \in DOMAIN reader[1].pages |->
                  extract_internal_links(reader[1].pages[i], i - 1,
                                         named_destinations_mapping,
                                         xref_to_page_mapping)]
    /\ call' = [op |-> "extract_internal_links"]
    /\ pc' = "done"
    /\ UNCHANGED <<session, files>>
    /\ UNCHANGED <<xref_to_page_mapping, named_destinations_mapping, reader>>

NextTables ==
    BuildXrefToPageMapping \/ BuildNamedDestinationsMapping \/ ExtractDocumentLinks

SpecTables == InitTables /\ [][NextTables]_vars

---------------------------------------------------------------------------
(* fetch_page of the index scraper (src/nccn_get_index.py, lines 52-77),   *)
(* one action per await (SpecFetch)                                        *)
(*                                                                         *)
(* session is the sequence of the responses the client has given, one per  *)
(* request; pc is [at, attempt], the await the coroutine stands at and the *)
(* loop variable; ret is None or Some(the string returned).                *)

\* a response with a 2xx status and its body
Ok(text) == [kind |-> "ok", text |-> text]

\* a response whose status makes raise_for_status raise (line 69)
StatusError == [kind |-> "status", text |-> ""]

\* client.get raises: no connection, or the timeout of line 68
TransportError == [kind |-> "raises", text |-> ""]

\* one more request after the last retry
retries_left_OneMore(attempt, max_retries) == attempt <= max_retries

\* `if attempt < max_retries` (line 72)
retries_left(attempt, max_retries) == attempt < max_retries

MaxRetries == 5

Bodies == {"", "h"}

FetchResponses == {Ok(text) : text \in Bodies} \cup {StatusError, TransportError}

\* the callers pass 3 (lines 92, 155) and 5 (line 115)
InitFetch ==
    /\ xref_to_page_mapping = EmptyDict
    /\ named_destinations_mapping = EmptyDict
    /\ reader = None
    /\ call \in {[op |-> "fetch_page", max_retries |-> m] : m \in 0..MaxRetries}
    /\ ret = None
    /\ pc = [at |-> "get", attempt |-> 0]
    /\ session = <<>>
    /\ files = EmptyDict

\* lines 68-77: the request of one attempt, and what follows it up to the
\* next await or the return
FetchGet(response) ==
    /\ pc.at = "get"
    /\ session' = Append(session, response)
    /\ IF response.kind = "ok"
       THEN /\ ret' = Some(response.text)
            /\ pc' = [pc EXCEPT !.at = "done"]
       ELSE IF retries_left(pc.attempt, call.max_retries)
       THEN /\ ret' = ret
            /\ pc' = [pc EXCEPT !.at = "sleep"]
       ELSE /\ ret' = Some("")
            /\ pc' = [pc EXCEPT !.at = "done"]
    /\ UNCHANGED <<xref_to_page_mapping, named_destinations_mapping, reader, call,
                   files>>

\* line 74 has slept: the next attempt of the for loop of line 66
FetchSleep ==
    /\ pc.at = "sleep"
    /\ pc' = [at |-> "get", attempt |-> pc.attempt + 1]
    /\ UNCHANGED <<xref_to_page_mapping, named_destinations_mapping, reader, call,
                   ret, session, files>>

NextFetch == (\E response \in FetchResponses : FetchGet(response)) \/ FetchSleep

\* the event loop resumes the coroutine when the request has an outcome
\* (a response, an error or the timeout of 30 s) and when the sleep is over
SpecFetch == InitFetch /\ [][NextFetch]_vars /\ WF_vars(NextFetch)

---------------------------------------------------------------------------

(* ensure_nccn_index and the scraper under it (src/nccn_get_index.py,      *)
(* lines 190-449), one action per call (SpecIndex)                         *)
(*                                                                         *)
(* files maps a path to [content, age_days]; the content of a file is the  *)
(* YAML text of a value, or nothing at all. A value read from YAML is      *)
(* tagged: a dict with the key nccn_guidelines, the dict {} or None.       *)

\* {'nccn_guidelines': categories}
Index(categories) == [kind |-> "index", categories |-> categories]

\* {}
EmptyData == [kind |-> "{}", categories |-> <<>>]

\* None
NoData == [kind |-> "None", categories |-> <<>>]

\* yaml.dump(data) (line 313)
yaml_dump(data) == [kind |-> "yaml", data |-> data]

\* a file of size 0
EmptyContent == [kind |-> "empty", data |-> NoData]

\* yaml.safe_load(f) (line 363): None for a file with nothing in it
yaml_safe_load(content) == IF content.kind = "empty" THEN NoData ELSE content.data

\* line 49
CACHE_MAX_AGE_DAYS == 7

\* what fetch_page gives for the pages of one category: "down" when every
\* request of every attempt fails (the title is "" and there are no items,
\* lines 93-94 and 116-117), "up" with the links found on the third-level
\* pages ("" for a page without the link, lines 156-168); "raises" when
\* something under process_category raises
CategoryDown == [items |-> <<>>, kind |-> "down"]

CategoryRaises == [items |-> <<>>, kind |-> "raises"]

CategoryUp(links) == [items |-> links, kind |-> "up"]

\* lines 190-246: the dict of one category, or the exception
process_category(category, category_num) ==
    IF category.kind = "raises"
    THEN [exc |-> "Exception", value |-> <<>>]
    ELSE [exc |-> "none",
          value |-> [items |-> [i \in DOMAIN category.items |->
                                   [title |-> "t", guideline_link |-> category.items[i]]],
                     category_num |-> category_num,
                     title |-> IF category.kind = "down" THEN "" ELSE "T"]]

\* line 270: the results that are no exception
scrape_results(results) ==
    LET valid(r) == r.exc = "none"
    IN  SelectSeq(results, valid)

\* lines 249-272; site is [client, categories]: whether the client can be
\* made, and the four category pages
scrape_all_categories(site) ==
    IF site.client = "raises"
    THEN [exc |-> "Exception", value |-> <<>>]
    ELSE [exc |-> "none",
          value |-> LET results == [i \in DOMAIN site.categories |->
                                       process_category(site.categories[i], i)]
                    IN  [i \in DOMAIN scrape_results(results) |->
                            scrape_results(results)[i].value]]

\* lines 292-299: the items of a category that have a guideline link
guidelines_of(category) ==
    LET linked(item) == item.guideline_link # ""
        items == SelectSeq(category.items, linked)
    IN  [i \in DOMAIN items |-> [title |-> items[i].title, url |-> items[i].guideline_link]]

\* lines 275-313: the categories that have a guideline, as YAML
generate_yaml(categories_data) ==
    LET has_guidelines(category) == guidelines_of(category) # <<>>
        kept == SelectSeq(categories_data, has_guidelines)
    IN  yaml_dump(Index([i \in DOMAIN kept |->
                            [category   |-> kept[i].title,
                             guidelines |-> guidelines_of(kept[i])]]))

\* lines 316-348
check_cache_file(fs, output_file) ==
    IF output_file \in DOMAIN fs
    THEN [exists   |-> TRUE,
          is_valid |-> /\ fs[output_file].age_days < CACHE_MAX_AGE_DAYS
                       /\ fs[output_file].content.kind # "empty"]
    ELSE [exists |-> FALSE, is_valid |-> FALSE]

\* lines 351-366: {} when the file cannot be opened
load_cached_data(fs, output_file) ==
    IF output_file \in DOMAIN fs THEN yaml_safe_load(fs[output_file].content)
    ELSE EmptyData

\* lines 416-417: the file written now
write_file(fs, output_file, content) ==
    dict_set(fs, output_file, [content |-> content, age_days |-> 0])

\* the fallback of lines 404-410 and 432-438
use_existing_cache(fs, output_file, cache_info) ==
    [ret   |-> IF cache_info.exists THEN load_cached_data(fs, output_file)
               ELSE EmptyData,
     files |-> fs]

\* lines 397-449, categories_data being what scrape_all_categories did
index_scraped(fs, output_file, cache_info, categories_data) ==
    IF categories_data.exc # "none" \/ categories_data.value = <<>>
    THEN use_existing_cache(fs, output_file, cache_info)
    ELSE [ret   |-> yaml_safe_load(generate_yaml(categories_data.value)),
          files |-> write_file(fs, output_file, generate_yaml(categories_data.value))]

\* lines 369-449: what the call returns and the files it leaves
ensure_nccn_index(fs, output_file, site) ==
    IF ~check_cache_file(fs, output_file).exists
       \/ ~check_cache_file(fs, output_file).is_valid
    THEN index_scraped(fs, output_file, check_cache_file(fs, output_file),
                       scrape_all_categories(site))
    ELSE [ret |-> load_cached_data(fs, output_file), files |-> fs]

MaxItems == 1

\* line 48
DEFAULT_OUTPUT_FILE == "nccn_guidelines_index.yaml"

\* line 266: range(1, 5)
Categories == 1..4

ItemLinks == {"", "g"}

CategoryPages ==
    {CategoryDown, CategoryRaises}
    \cup {CategoryUp(links) : links \in UNION {[1..k -> ItemLinks] : k \in 0..MaxItems}}

Sites ==
    {[categories |-> categories, client |-> client] :
        categories \in [Categories -> CategoryPages], client \in {"made", "raises"}}

\* the index of an earlier run
OldIndex ==
    yaml_dump(Index(<<[category   |-> "T",
                       guidelines |-> <<[title |-> "t", url |-> "old"]>>]>>))

\* the cache file: none, one of today, one of eight days ago, an empty one
CacheFiles ==
    {EmptyDict}
    \cup {dict_set(EmptyDict, DEFAULT_OUTPUT_FILE, [content |-> content, age_days |-> age_days]) :
             content \in {OldIndex, EmptyContent}, age_days \in {0, 8}}

InitIndex ==
    /\ xref_to_page_mapping = EmptyDict
    /\ named_destinations_mapping = EmptyDict
    /\ reader = None
    /\ call \in {[op |-> "ensure_nccn_index", site |-> site,
                  output_file |-> DEFAULT_OUTPUT_FILE] : site \in Sites}
    /\ ret = None
    /\ pc = "call"
    /\ session = <<>>
    /\ files \in CacheFiles

EnsureNccnIndex ==
    \E r \in {ensure_nccn_index(files, call.output_file, call.site)} :
        /\ pc = "call"
        /\ ret' = Some(r.ret)
        /\ files' = r.files
        /\ pc' = "done"
        /\ UNCHANGED <<xref_to_page_mapping, named_destinations_mapping, reader, call,
                       session>>

NextIndex == EnsureNccnIndex

SpecIndex == InitIndex /\ [][NextIndex]_vars

---------------------------------------------------------------------------

(* NCCNDownloader.download_pdf (src/nccn_login_downloader.py, lines        *)
(* 158-286) and the download_pdf tool of the server (src/server.py, lines  *)
(* 143-195), one action per call (SpecDownload)                            *)
(*                                                                         *)
(* files maps the name of a file of the download directory to its          *)
(* content; session is the sequence of what was done on the downloader's   *)
(* client, "get" for a request of the PDF and "login" for a call of        *)
(* login. The server is a script: its answers to the successive requests   *)
(* of one call, each with the outcome a login made after it has.           *)

\* `a or b` on optional strings
or_else(a, b) == IF a # None THEN a ELSE b

endswith(str, suffix) ==
    /\ Len(suffix) <= Len(str)
    /\ SubSeq(str, Len(str) - Len(suffix) + 1, Len(str)) = suffix

\* os.path.basename: what follows the last "/"
basename(path) == split(path, <<"/">>)[Len(split(path, <<"/">>))]

DefaultFilename ==
    <<"n", "c", "c", "n", "_", "g", "u", "i", "d", "e", "l", "i", "n", "e",
      ".", "p", "d", "f">>

\* lines 174-176
filename_of(pdf_url) ==
    IF basename(pdf_url) # <<>> /\ endswith(basename(pdf_url), <<".", "p", "d", "f">>)
    THEN basename(pdf_url)
    ELSE DefaultFilename

\* an answer of the server to the request of line 201, or its failure
Response(kind, login) == [kind |-> kind, login |-> login]

\* the answer leads to the login of lines 226-234 or 259-266
asks_login(response) ==
    response.kind = "login page" \/ response.kind = "redirect to login"

Outcome(success, filename, fs, log) ==
    [ret |-> [success |-> success, filename |-> filename], files |-> fs, log |-> log]

\* lines 172-286. self is [username, password], what __init__ stored;
\* log is what was done on the session so far.
RECURSIVE download_pdf(_, _, _, _, _, _, _, _)
download_pdf(self, pdf_url, username, password, skip_if_exists, fs, script, log) ==
    IF skip_if_exists /\ filename_of(pdf_url) \in DOMAIN fs
    THEN Outcome(TRUE, filename_of(pdf_url), fs, log)
    ELSE IF script = <<>> \/ Head(script).kind = "raises"
    THEN Outcome(FALSE, filename_of(pdf_url), fs, Append(log, "get"))
    ELSE IF Head(script).kind = "pdf"
    THEN Outcome(TRUE, filename_of(pdf_url),
                 dict_set(fs, filename_of(pdf_url), "pdf"), Append(log, "get"))
    ELSE IF asks_login(Head(script))
            /\ or_else(username, self.username) # None
            /\ or_else(password, self.password) # None
    THEN IF Head(script).login
         THEN download_pdf(self, pdf_url, None, None, skip_if_exists, fs,
                           Tail(script), log \o <<"get", "login">>)
         ELSE Outcome(FALSE, filename_of(pdf_url), fs, log \o <<"get", "login">>)
    ELSE Outcome(FALSE, filename_of(pdf_url), fs, Append(log, "get"))

\* NCCNDownloader(username, password), lines 44-54
NCCNDownloader(username, password) == [username |-> username, password |-> password]

\* the call of an `async def` function that is not awaited: a coroutine
\* object, and nothing of the function's body is run
Coroutine == [kind |-> "coroutine", success |-> FALSE, filename |-> <<>>]

\* the tuple an awaited call of download_pdf gives
Pair(success, filename) == [kind |-> "tuple", success |-> success, filename |-> filename]

\* server.py, lines 175-181: `downloader_instance.download_pdf(...)`, with
\* no await before it; NCCNDownloader.download_pdf is declared `async def`
\* (nccn_login_downloader.py, line 158)
call_download_pdf(instance, url, env) == Coroutine

\* `success, actual_filename = value` (server.py, line 175)
unpack_pair(value) ==
    IF value.kind = "tuple"
    THEN [exc |-> "none", cause |-> ""]
    ELSE [exc |-> "TypeError", cause |-> "cannot unpack non-iterable coroutine object"]

\* server.py, lines 175-195: the string the tool returns, as [kind, text];
\* value is what the call of line 175 gave.
\* env is [username, password], NCCN_USERNAME and NCCN_PASSWORD of lines 37-38.
tool_reports(url, env, value) ==
    IF unpack_pair(value).exc # "none"
    THEN [kind |-> "error",
          text |-> <<"Error downloading PDF: ", unpack_pair(value).cause>>]
    ELSE IF value.success
    THEN [kind |-> "downloaded",
          text |-> <<"PDF downloaded successfully: ", value.filename>>]
    ELSE [kind |-> "failed",
          text |-> <<"Failed to download PDF from ", url>>
                   \o (IF env.username # None /\ env.password # None THEN <<>>
                       ELSE <<" You may need to provide NCCN login credentials">>)]

\* the downloader the tool makes its call on (server.py, lines 166-172)
downloader_instance(env) ==
    IF env.username # None /\ env.password # None
    THEN NCCNDownloader(env.username, env.password)
    ELSE NCCNDownloader(None, None)

\* server.py, lines 157-195
download_pdf_tool(url, env) ==
    tool_reports(url, env, call_download_pdf(downloader_instance(env), url, env))

MaxRequests == 3

Urls == {<<"h", "/", "a", ".", "p", "d", "f">>, <<"h", "/", "x">>}

\* the answers after which the call asks nothing more
LastResponses ==
    {Response(kind, FALSE) :
        kind \in {"pdf", "login page", "redirect to login", "html", "other type",
                  "redirect", "status", "raises"}}

\* the answers after which the call logs in and asks again
LoginResponses == {Response(kind, TRUE) : kind \in {"login page", "redirect to login"}}

RECURSIVE ScriptsUpTo(_)
ScriptsUpTo(n) ==
    IF n = 0 THEN {<<>>}
    ELSE {<<>>} \cup {<<r>> : r \in LastResponses}
         \cup {<<r>> \o script : r \in LoginResponses, script \in ScriptsUpTo(n - 1)}

Credentials == {[username |-> None, password |-> None],
                [username |-> Some("u"), password |-> Some("p")]}

DownloadFiles(url) == {EmptyDict, dict_set(EmptyDict, filename_of(url), "pdf")}

DownloadCalls ==
    {[op |-> "download_pdf", self |-> self, url |-> url, username |-> c.username,
      password |-> c.password, skip_if_exists |-> skip_if_exists, script |-> script] :
        self \in Credentials, url \in Urls, c \in Credentials,
        skip_if_exists \in BOOLEAN, script \in ScriptsUpTo(MaxRequests)}

DownloadToolCalls ==
    {[op |-> "download_pdf tool", url |-> url, script |-> script, env |-> env] :
        url \in Urls, env \in Credentials, script \in ScriptsUpTo(MaxRequests)}

InitDownload ==
    /\ xref_to_page_mapping = EmptyDict
    /\ named_destinations_mapping = EmptyDict
    /\ reader = None
    /\ call \in DownloadCalls \cup DownloadToolCalls
    /\ ret = None
    /\ pc = "call"
    /\ session = <<>>
    /\ files \in DownloadFiles(call.url)

\* a call of NCCNDownloader.download_pdf that is awaited
DownloadPdf ==
    /\ pc = "call"
    /\ call.op = "download_pdf"
    /\ \E r \in {download_pdf(call.self, call.url, call.username, call.password,
                              call.skip_if_exists, files, call.script, session)} :
          /\ ret' = Some(r.ret)
          /\ files' = r.files
          /\ session' = r.log
    /\ pc' = "done"
    /\ UNCHANGED <<xref_to_page_mapping, named_destinations_mapping, reader, call>>

\* an invocation of the tool
DownloadPdfTool ==
    /\ pc = "call"
    /\ call.op = "download_pdf tool"
    /\ ret' = Some(download_pdf_tool(call.url, call.env))
    /\ pc' = "done"
    /\ UNCHANGED <<xref_to_page_mapping, named_destinations_mapping, reader, call,
                   session, files>>

NextDownload == DownloadPdf \/ DownloadPdfTool

SpecDownload == InitDownload /\ [][NextDownload]_vars

---------------------------------------------------------------------------

(* Properties of parse_pages, checked under SpecPages                      *)

ParsePagesDone == pc = "done" /\ call.op = "parse_pages"

\* the spec string of a finished call ("" when the spec is None)
SpecString == IF call.pages_str = None THEN <<>> ELSE call.pages_str[1]

IsDigits(s) == s # <<>> /\ \A i \in DOMAIN s : isdigit(s[i])

\* an integer token: digits, or a hyphen and digits
IsIntToken(t) == IsDigits(t) \/ (Len(t) >= 2 /\ t[1] = "-" /\ IsDigits(Tail(t)))

TokenVal(t) == IF t[1] = "-" THEN 0 - DecVal(Tail(t)) ELSE DecVal(t)

\* the positions of the hyphen that separates A from B when s reads A-B
RangeSplits(s) ==
    { i \in 2..(Len(s) - 1) :
        /\ s[i] = "-"
        /\ IsIntToken(SubSeq(s, 1, i - 1))
        /\ IsIntToken(SubSeq(s, i + 1, Len(s))) }

\* the 0-based indices of the pages lo..hi that lie in 1..total, ascending
PagesBetween(lo, hi, total) ==
    SortedOf({p - 1 : p \in {q \in lo..hi : 1 <= q /\ q <= total}})

Min(a, b) == IF a < b THEN a ELSE b

Max(a, b) == IF a < b THEN b ELSE a

\* C1: a spec that is the single negative token -n, 1 <= n <= total_pages,
\* selects exactly the 0-based index total_pages - n ("-1" of 10 gives [9]).
C1_NegativeSingleToken ==
    ParsePagesDone =>
        LET s == SpecString
        IN  (/\ Len(s) >= 2
             /\ s[1] = "-"
             /\ IsDigits(Tail(s))
             /\ 1 <= DecVal(Tail(s))
             /\ DecVal(Tail(s)) <= call.total_pages)
            => ret = [exc |-> "none",
                      value |-> <<call.total_pages - DecVal(Tail(s))>>]

\* C2: whatever the spec string, the returned list is strictly ascending
\* (hence without duplicates) and every element lies in 0..total_pages-1.
C2_AscendingUniqueInRange ==
    ParsePagesDone =>
        /\ \A i \in DOMAIN ret.value :
              0 <= ret.value[i] /\ ret.value[i] <= call.total_pages - 1
        /\ \A i \in 1..(Len(ret.value) - 1) : ret.value[i] < ret.value[i + 1]

\* the pages in the order the parts contributed them, before sorted(set())
CollectedPages ==
    parse_parts(split(SpecString, <<",">>), call.total_pages, <<>>).pages

\* C2's case: parts that contribute a page twice or out of order
C2_Witness ==
    /\ ParsePagesDone
    /\ call.pages_str # None
    /\ Len(ret.value) >= 2
    /\ \E i \in 1..(Len(CollectedPages) - 1) :
          CollectedPages[i] >= CollectedPages[i + 1]

\* C6: a spec that is one range A-B of positive integers yields exactly the
\* indices p-1 for p in [min(A,B), max(A,B)] and in [1, total_pages]
\* ("5-2" of 10 gives [1,2,3,4]).
C6_RangeNormalization ==
    ParsePagesDone =>
        LET s == SpecString
        IN  /\ \A i \in RangeSplits(s) :
                  LET A == SubSeq(s, 1, i - 1)
                      B == SubSeq(s, i + 1, Len(s))
                  IN  (IsDigits(A) /\ IsDigits(B) /\ DecVal(A) > 0 /\ DecVal(B) > 0)
                      => ret = [exc |-> "none",
                                value |-> PagesBetween(Min(DecVal(A), DecVal(B)),
                                                       Max(DecVal(A), DecVal(B)),
                                                       call.total_pages)]
            /\ (s = <<"5", "-", "2">> /\ call.total_pages = 10)
                  => ret.value = <<1, 2, 3, 4>>

\* C6's case: a reversed range that selects several pages
C6_Witness ==
    /\ ParsePagesDone
    /\ \E i \in RangeSplits(SpecString) :
          LET A == SubSeq(SpecString, 1, i - 1)
              B == SubSeq(SpecString, i + 1, Len(SpecString))
          IN  /\ IsDigits(A) /\ IsDigits(B)
              /\ DecVal(B) > 0
              /\ DecVal(A) > DecVal(B)
              /\ DecVal(A) <= call.total_pages
    /\ Len(ret.value) >= 2

\* C7: in a range A-B each endpoint, negative ones included, is resolved by
\* the negative-indexing rule; the part contributes nothing when a resolved
\* endpoint is <= 0 and otherwise the pages between the resolved endpoints.
\* Stated for the ranges in which no two hyphens are adjacent (a signed A and
\* an unsigned B), since section 8 calls "-3--1" invalid syntax.
C7_RangeEndpointsResolved ==
    ParsePagesDone =>
        \A i \in RangeSplits(SpecString) :
            LET a  == TokenVal(SubSeq(SpecString, 1, i - 1))
                b  == TokenVal(SubSeq(SpecString, i + 1, Len(SpecString)))
                ra == IF a < 0 THEN call.total_pages + a + 1 ELSE a
                rb == IF b < 0 THEN call.total_pages + b + 1 ELSE b
            IN  ~contains(SpecString, <<"-", "-">>)
                => ret = [exc |-> "none",
                          value |-> IF ra <= 0 \/ rb <= 0 THEN <<>>
                                    ELSE PagesBetween(Min(ra, rb), Max(ra, rb),
                                                      call.total_pages)]

\* a stripped part on which one of the int() calls of parse_pages fails
FailsIntParsing(part) ==
    IF contains(part, <<"-">>)
    THEN \/ int(strip(split1(part, <<"-">>)[1])).exc = "ValueError"
         \/ int(strip(split1(part, <<"-">>)[2])).exc = "ValueError"
    ELSE int(part).exc = "ValueError"

\* the parts of the spec string that are not skipped as unparseable
ParsingParts ==
    LET keep(p) == ~FailsIntParsing(strip(p))
    IN  SelectSeq(split(SpecString, <<",">>), keep)

\* C8: parse_pages never raises; a part that fails integer parsing contributes
\* nothing and the result is what the remaining parts produce
\* ("2,abc,4-6" of 6 gives [1,3,4,5]; "-3--1" is skipped).
C8_UnparseablePartsSkipped ==
    ParsePagesDone =>
        /\ ret.exc = "none"
        /\ ~not_pages_str(call.pages_str)
              => ret.value =
                    sorted_set(parse_parts(ParsingParts, call.total_pages, <<>>).pages)
        /\ (SpecString = <<"2", ",", "a", "b", "c", ",", "4", "-", "6">>
              /\ call.total_pages = 6) => ret.value = <<1, 3, 4, 5>>
        /\ SpecString = <<"-", "3", "-", "-", "1">> => ret.value = <<>>

\* C8's case: an unparseable part beside parts that select pages
C8_Witness ==
    /\ ParsePagesDone
    /\ \E i \in DOMAIN split(SpecString, <<",">>) :
          LET part == strip(split(SpecString, <<",">>)[i])
          IN  part # <<>> /\ FailsIntParsing(part)
    /\ Len(ParsingParts) >= 1
    /\ Len(ret.value) >= 1

\* C9: an absent or empty spec returns every index 0 .. total_pages-1 in
\* order (the empty list for a document of no pages), without raising.
C9_AbsentOrEmptySpecSelectsAll ==
    (ParsePagesDone /\ (call.pages_str = None \/ call.pages_str = Some(<<>>)))
        => ret = [exc |-> "none",
                  value |-> [i \in 1..call.total_pages |-> i - 1]]

\* C9's case: the empty string on a document of several pages
C9_Witness ==
    /\ ParsePagesDone
    /\ call.pages_str = Some(<<>>)
    /\ call.total_pages >= 2
    /\ Len(ret.value) = call.total_pages

---------------------------------------------------------------------------
(* Properties of the link target resolution, checked under SpecLinks       *)

LinksDone == pc = "done" /\ call.op = "extract_internal_links"

\* the raw target of the page's annotation
RawTarget == call.page.annots.items[1].target

\* s[i..j] is a maximal run of decimal digits of s
IsIntegerAt(s, i, j) ==
    /\ 1 <= i /\ i <= j /\ j <= Len(s)
    /\ \A k \in i..j : isdigit(s[k])
    /\ i = 1 \/ ~isdigit(s[i - 1])
    /\ j = Len(s) \/ ~isdigit(s[j + 1])

\* the values of the integers embedded in s
EmbeddedIntegers(s) ==
    {DecVal(SubSeq(s, i, j)) : i \in 1..Len(s), j \in 1..Len(s)} \cap
    {DecVal(SubSeq(s, r[1], r[2])) :
        r \in {q \in (1..Len(s)) \X (1..Len(s)) : IsIntegerAt(s, q[1], q[2])}}

HasInteger(s) == \E i, j \in 1..Len(s) : IsIntegerAt(s, i, j)

\* the value of the leftmost integer embedded in s
FirstInteger(s) ==
    LET r == CHOOSE q \in (1..Len(s)) \X (1..Len(s)) :
                /\ IsIntegerAt(s, q[1], q[2])
                /\ \A i, j \in 1..Len(s) : IsIntegerAt(s, i, j) => q[1] <= i
    IN  DecVal(SubSeq(s, r[1], r[2]))

\* the value of the rightmost integer embedded in s
LastInteger(s) ==
    LET r == CHOOSE q \in (1..Len(s)) \X (1..Len(s)) :
                /\ IsIntegerAt(s, q[1], q[2])
                /\ \A i, j \in 1..Len(s) : IsIntegerAt(s, i, j) => i <= q[1]
    IN  DecVal(SubSeq(s, r[1], r[2]))

\* the substring after the (first) marker
AfterMarker(s) == SubSeq(s, find(s, Marker) + Len(Marker), Len(s))

\* C3: a raw target that is a key of the named-destination table resolves to
\* that table's page, whatever object ids its embedded digits name.
C3_NamedDestinationWins ==
    (LinksDone /\ RawTarget \in DOMAIN named_destinations_mapping)
        => /\ Len(ret) = 1
           /\ ret[1].target = RawTarget
           /\ ret[1].target_page = Some(named_destinations_mapping[RawTarget])

\* C3's case: the key's digits name an object id of another page
C3_Witness ==
    /\ LinksDone
    /\ RawTarget \in DOMAIN named_destinations_mapping
    /\ \E id \in EmbeddedIntegers(RawTarget) :
          /\ id \in DOMAIN xref_to_page_mapping
          /\ xref_to_page_mapping[id] # named_destinations_mapping[RawTarget]
    /\ ret[1].target_page = Some(named_destinations_mapping[RawTarget])

\* C4: for a raw target that is no named-destination key and contains
\* "indd:", the candidate id is the last integer embedded in the substring
\* after the marker, and the link resolves to the xref table's page for it
\* when it is a key of the table.
C4_InddUsesLastIntegerAfterMarker ==
    (/\ LinksDone
     /\ RawTarget \notin DOMAIN named_destinations_mapping
     /\ contains(RawTarget, Marker)
     /\ HasInteger(AfterMarker(RawTarget))
     /\ LastInteger(AfterMarker(RawTarget)) \in DOMAIN xref_to_page_mapping)
        => ret[1].target_page =
              Some(xref_to_page_mapping[LastInteger(AfterMarker(RawTarget))])

\* C5: for a raw target that is no named-destination key and does not
\* contain "indd:", the candidate id is the first integer embedded in the
\* string; the link resolves to the xref table's page for it when it is a
\* key, and to nothing otherwise: later integers are never used
\* ("78 0 R" uses 78).
C5_GenericUsesFirstInteger ==
    LinksDone =>
        /\ (/\ RawTarget \notin DOMAIN named_destinations_mapping
            /\ ~contains(RawTarget, Marker)
            /\ HasInteger(RawTarget))
              => /\ Len(ret) = 1
                 /\ ret[1].target_page =
                       dict_get(xref_to_page_mapping, FirstInteger(RawTarget))
        /\ (/\ RawTarget = <<"7", "8", " ", "0", " ", "R">>
            /\ named_destinations_mapping = EmptyDict
            /\ 78 \in DOMAIN xref_to_page_mapping)
              => ret[1].target_page = Some(xref_to_page_mapping[78])

\* C5's case: a later integer of the target is the id of another page
C5_Witness ==
    /\ LinksDone
    /\ RawTarget \notin DOMAIN named_destinations_mapping
    /\ ~contains(RawTarget, Marker)
    /\ HasInteger(RawTarget)
    /\ FirstInteger(RawTarget) \in DOMAIN xref_to_page_mapping
    /\ LastInteger(RawTarget) \in DOMAIN xref_to_page_mapping
    /\ xref_to_page_mapping[LastInteger(RawTarget)]
          # xref_to_page_mapping[FirstInteger(RawTarget)]
    /\ ret[1].target_page = Some(xref_to_page_mapping[FirstInteger(RawTarget)])

---------------------------------------------------------------------------
(* extract_content on the server's reader (Spec)                           *)

\* a call of extract_content on a path PdfReader could read has returned
ContentDone ==
    /\ pc = "done"
    /\ call.op = "extract_content"
    /\ call.pdf_path # ""
    /\ call.file.readable

CalledPages == call.file.doc.pages

\* C10: a page whose object identifier cannot be determined is not fatal:
\* extract_content on a document with such a page returns its output, and
\* every page that has an object id is a key of the xref-to-page table.
C10_UnresolvablePageIsNonFatal ==
    (ContentDone /\ \E i \in DOMAIN CalledPages : CalledPages[i].idnum = None)
        => /\ ret.exc = "none"
           /\ \A i \in DOMAIN CalledPages :
                  CalledPages[i].idnum # None
                      => CalledPages[i].idnum[1] \in DOMAIN xref_to_page_mapping

---------------------------------------------------------------------------
(* Properties of one page's content and format, checked under              *)
(* SpecPageContent                                                         *)

PageContentDone == pc = "done" /\ call.op = "extract_page_content"

\* the layout mode gave no text: it raised, or returned an empty result
LayoutYieldsNoText == call.page.layout.exc # "none" \/ call.page.layout.text = ""

\* C11 as stated: whenever the layout mode yields no text, by an exception
\* or by an empty result, the plain mode is tried and its text is used.
C11_PlainModeWhenLayoutYieldsNoText ==
    (PageContentDone /\ LayoutYieldsNoText /\ call.page.plain.exc = "none")
        => ret.content.text = call.page.plain.text

\* C11 amended: the layout mode is used first; the plain mode is tried, and
\* its text used, when the layout mode raises; an empty result of the layout
\* mode is the page's text, and the plain mode is not tried.
C11_PlainModeWhenLayoutRaises ==
    PageContentDone
        => /\ call.page.layout.exc = "none"
                  => ret.content.text = call.page.layout.text
           /\ (call.page.layout.exc # "none" /\ call.page.plain.exc = "none")
                  => ret.content.text = call.page.plain.text
           /\ (call.page.layout.exc # "none" /\ call.page.plain.exc # "none")
                  => ret.content.text = ""

\* C11's case: the layout mode raised and the text is that of the plain mode
C11_Witness ==
    /\ PageContentDone
    /\ call.page.layout.exc # "none"
    /\ call.page.plain = Text("P")
    /\ ret.content.text = "P"

---------------------------------------------------------------------------
(* Properties of the tables across extract_content calls, checked under   *)
(* Spec                                                                    *)

\* a call of extract_content has returned or raised
ContentCalled == pc = "done" /\ call.op = "extract_content"

\* a PDFReader on which no call was made yet
FreshReader == <<EmptyDict, EmptyDict, None>>

\* C12: whatever calls were made before on the reader, failed ones included,
\* a call returns (or raises) what it does on a fresh reader, and when it
\* returns, both tables are the ones built from its own document alone.
C12_TablesAreRequestScoped ==
    ContentCalled
        => \E fresh \in {extract_content(FreshReader, call.pdf_path,
                                         call.file, call.pages)} :
               /\ ret = fresh.ret
               /\ ret.exc = "none"
                     => /\ xref_to_page_mapping = fresh.self[1]
                        /\ named_destinations_mapping = fresh.self[2]

\* C12's case: a call failed part-way on its document and the reader still
\* holds the named destinations of the document of an earlier call
C12_Witness ==
    /\ ContentDone
    /\ ret.exc # "none"
    /\ reader = Some(call.file.doc)
    /\ named_destinations_mapping # EmptyDict
    /\ call.file.doc.named_destinations = <<>>

---------------------------------------------------------------------------
(* Properties of the tool's invocations, checked under SpecServer          *)

\* what the tool returns for a call made alone on a fresh reader
AloneResult(c) == extract_content_tool(FreshReader, c).ret

\* C13: invocations submitted together never interleave: at most one is
\* between the building of the tables and its return, and each returns what
\* its call returns when made alone, so no link of it was resolved against
\* the tables of another invocation.
C13_InvocationsNeverInterleave ==
    /\ \A t, u \in Tasks :
          (pc[t] = "tables_built" /\ pc[u] = "tables_built") => t = u
    /\ \A t \in Tasks : pc[t] = "done" => ret[t] = AloneResult(call[t])

\* C13's case: two invocations on different documents have both returned
\* their content
C13_Witness ==
    /\ pc[1] = "done" /\ pc[2] = "done"
    /\ call[1].file # call[2].file
    /\ ret[1].kind = "content" /\ ret[2].kind = "content"
    /\ ret[1] # ret[2]

\* the reader was handed a path at which PdfReader finds nothing it can read
OpenFails(c) == resolve_pdf_path(c.pdf_path, c.found) # None /\ ~c.file.readable

\* C14: when the document cannot be opened or read, the tool returns its
\* error string with the message PDFReader.extract_content raised, which
\* holds the cause; the failure is never returned as content nor as the
\* notice of an empty extraction.
C14_OpenFailureIsReported ==
    \A t \in Tasks :
        (pc[t] = "done" /\ OpenFails(call[t]))
            => /\ ret[t].kind = "error"
               /\ ret[t].text = <<"Error extracting content from PDF: ",
                                  "Failed to extract PDF content: ", "PdfReader">>

\* C14's case: an invocation on an unreadable file has returned its error
\* after another invocation returned the content of its document
C14_Witness ==
    /\ pc[1] = "done" /\ ret[1].kind = "content"
    /\ pc[2] = "done" /\ OpenFails(call[2]) /\ ret[2].kind = "error"
    /\ reader = Some(call[1].file.doc)

---------------------------------------------------------------------------
(* Properties of the pages of one extract_content call, checked under Spec *)

\* the extraction of the page's text fails in both modes
TextFails(page) == page.layout.exc # "none" /\ page.plain.exc # "none"

\* the page with its faults taken away
Healed(page) ==
    IF TextFails(page)
    THEN [page EXCEPT !.annots = NoAnnots, !.layout = Text("L"), !.plain = Text("P")]
    ELSE page

HealedFile(file) ==
    [file EXCEPT !.doc.pages = [i \in DOMAIN file.doc.pages |-> Healed(file.doc.pages[i])]]

\* every page of the called document can be indexed
Indexable == \A i \in DOMAIN CalledPages : CalledPages[i].idnum # None

\* the blocks the call returns on the document without the faults
HealedBlocks ==
    extract_content(FreshReader, call.pdf_path, HealedFile(call.file), call.pages).ret.value

\* C15: when the text or the links of a selected page cannot be extracted
\* the call still returns; the page contributes its block, the header
\* 'Page N:' alone, and every other selected page the block it has when
\* nothing fails.
C15_PageFaultsAreIsolated ==
    (ContentDone /\ Indexable)
        => /\ ret.exc = "none"
           /\ Len(ret.value) = Len(HealedBlocks)
           /\ \A k \in DOMAIN ret.value :
                  IF TextFails(CalledPages[ret.value[k][1].n])
                  THEN ret.value[k] = <<Line("Page", HealedBlocks[k][1].n, <<>>, None)>>
                  ELSE ret.value[k] = HealedBlocks[k]

\* C15's case: the faulty page is selected with a page that has text
C15_Witness ==
    /\ ContentDone
    /\ ret.exc = "none"
    /\ Len(CalledPages) >= 2
    /\ TextFails(CalledPages[1])
    /\ ~TextFails(CalledPages[2])
    /\ Len(ret.value) = 2
    /\ Len(ret.value[1]) = 1
    /\ Len(ret.value[2]) > 1

---------------------------------------------------------------------------
(* Properties of the links of one page, checked under SpecPageContent      *)

PageAnnots == IF call.page.annots.present THEN call.page.annots.items ELSE <<>>

IsGoTo(annot) == annot.kind = "GoTo"

\* the annotations of the page that have a readable GoTo action, in order
GoToAnnots == SelectSeq(PageAnnots, IsGoTo)

PageLinks == ret.content.internal_links

\* C16: the links of a page are one record per annotation with a readable
\* GoTo action, in the order of the annotations; annotations without action
\* or with another action, and annotations whose processing raises, leave no
\* record and leave the records of the others as they are.
C16_OneLinkPerGoToAnnotation ==
    PageContentDone
        => /\ Len(PageLinks) = Len(GoToAnnots)
           /\ \A i \in DOMAIN PageLinks :
                  PageLinks[i] =
                      [target      |-> GoToAnnots[i].target,
                       source_page |-> call.page_num + 1,
                       target_page |-> resolve_target(GoToAnnots[i].target,
                                                      named_destinations_mapping,
                                                      xref_to_page_mapping)]

\* C16's case: an annotation that raises between two GoTo annotations
C16_Witness ==
    /\ PageContentDone
    /\ Len(PageAnnots) = 3
    /\ PageAnnots[1].kind = "GoTo"
    /\ PageAnnots[2].kind = "Raises"
    /\ PageAnnots[3].kind = "GoTo"
    /\ Len(PageLinks) = 2
    /\ PageLinks[1].target = PageAnnots[1].target
    /\ PageLinks[2].target = PageAnnots[3].target

\* no rule of the resolution gives the target a page: it is no named
\* destination and its candidate object id, if it has one, is no key of the
\* xref table
HasNoPage(target) ==
    /\ target \notin DOMAIN named_destinations_mapping
    /\ IF contains(target, Marker)
       THEN \/ ~HasInteger(AfterMarker(target))
            \/ LastInteger(AfterMarker(target)) \notin DOMAIN xref_to_page_mapping
       ELSE \/ ~HasInteger(target)
            \/ FirstInteger(target) \notin DOMAIN xref_to_page_mapping

IsLinkLine(line) == line.kind = "Link"

\* the 'Link k:' lines of the formatted page
LinkLines == SelectSeq(ret.formatted, IsLinkLine)

\* C17: a GoTo link whose target has no page still gets its record, with the
\* raw target and no resolved page, and the formatted page lists it without
\* '-> Page'.
C17_UnresolvedLinkIsShown ==
    PageContentDone
        => /\ Len(PageLinks) = Len(GoToAnnots)
           /\ Len(LinkLines) = Len(GoToAnnots)
           /\ \A i \in DOMAIN GoToAnnots :
                  HasNoPage(GoToAnnots[i].target)
                      => /\ PageLinks[i].target = GoToAnnots[i].target
                         /\ PageLinks[i].target_page = None
                         /\ LinkLines[i].n = i
                         /\ LinkLines[i].page = None

\* C17's case: a link to an object id of no page after a link that resolves
C17_Witness ==
    /\ PageContentDone
    /\ Len(GoToAnnots) = 2
    /\ ~HasNoPage(GoToAnnots[1].target)
    /\ HasNoPage(GoToAnnots[2].target)
    /\ HasInteger(GoToAnnots[2].target)
    /\ PageLinks[2].target_page = None
    /\ LinkLines[1].page # None
    /\ LinkLines[2].page = None

---------------------------------------------------------------------------
(* Properties of the two tables, checked under SpecTables                  *)

TablePagesOf == reader[1].pages

DestsOf == reader[1].named_destinations

\* the destination's target object id is a key of the xref table
HasPage(dest) == dest.page # None /\ dest.page[1] \in DOMAIN xref_to_page_mapping

\* C18: the named-destination table holds a name exactly when the object id
\* of that destination is a key of the xref table, with that id's page
\* number; a dangling destination is left out and the others are recorded.
C18_NamedDestinationTable ==
    (pc = "named" \/ pc = "done")
        => /\ DOMAIN named_destinations_mapping =
                  {DestsOf[i].name : i \in {j \in DOMAIN DestsOf : HasPage(DestsOf[j])}}
           /\ \A i \in DOMAIN DestsOf :
                  HasPage(DestsOf[i])
                      => named_destinations_mapping[DestsOf[i].name] =
                             xref_to_page_mapping[DestsOf[i].page[1]]

\* C18's case: a dangling destination before one that has a page
C18_Witness ==
    /\ pc = "named"
    /\ Len(DestsOf) = 2
    /\ DestsOf[1].page # None
    /\ ~HasPage(DestsOf[1])
    /\ HasPage(DestsOf[2])
    /\ DOMAIN named_destinations_mapping = {DestsOf[2].name}

\* the pages of the document have object ids, no two the same
UniqueIds ==
    /\ \A i \in DOMAIN TablePagesOf : TablePagesOf[i].idnum # None
    /\ \A i, j \in DOMAIN TablePagesOf :
          i # j => TablePagesOf[i].idnum # TablePagesOf[j].idnum

\* C19: on a document of N pages with unique object ids the xref table has
\* N entries, the id of the page at position i (from 0) mapped to i + 1, its
\* values being 1..N; every resolved page of every link is in 1..N.
C19_XrefTableIsPageIndex ==
    ((pc = "indexed" \/ pc = "named" \/ pc = "done") /\ UniqueIds)
        => /\ Cardinality(DOMAIN xref_to_page_mapping) = Len(TablePagesOf)
           /\ \A i \in DOMAIN TablePagesOf :
                  xref_to_page_mapping[TablePagesOf[i].idnum[1]] = i
           /\ {xref_to_page_mapping[k] : k \in DOMAIN xref_to_page_mapping}
                  = 1..Len(TablePagesOf)
           /\ pc = "done"
                  => \A i \in DOMAIN ret : \A k \in DOMAIN ret[i] :
                         ret[i][k].target_page # None
                             => ret[i][k].target_page[1] \in 1..Len(TablePagesOf)

\* C19's case: three pages, and a link to the object id of the last one
C19_Witness ==
    /\ pc = "done"
    /\ UniqueIds
    /\ Len(TablePagesOf) = 3
    /\ Cardinality(DOMAIN xref_to_page_mapping) = 3
    /\ ret[1] # <<>>
    /\ ret[1][1].target_page = Some(3)


\* the positions of the 'Internal Links:' heading in the formatted page
SectionHeads == {i \in DOMAIN ret.formatted : ret.formatted[i].kind = "Internal Links:"}

\* C20: the formatted page has the 'Internal Links' section exactly when the
\* page has a link record, resolved or not; the section has one 'Link k:'
\* line per record, in order, and a line carries '-> Page N' exactly when its
\* record has the resolved page N.
C20_LinksSectionListsEveryRecord ==
    PageContentDone
        => /\ (SectionHeads # {}) <=> (PageLinks # <<>>)
           /\ Cardinality(SectionHeads) <= 1
           /\ \A i \in DOMAIN ret.formatted :
                  IsLinkLine(ret.formatted[i]) => \E h \in SectionHeads : h < i
           /\ Len(LinkLines) = Len(PageLinks)
           /\ \A k \in DOMAIN LinkLines :
                  /\ LinkLines[k].n = k
                  /\ LinkLines[k].text = clean_target(PageLinks[k].target)
                  /\ LinkLines[k].page = PageLinks[k].target_page

\* C20's case: a page whose first link has no page and whose second has one
C20_Witness ==
    /\ PageContentDone
    /\ Len(PageLinks) = 2
    /\ PageLinks[1].target_page = None
    /\ PageLinks[2].target_page # None
    /\ Len(LinkLines) = 2
    /\ LinkLines[2].page = PageLinks[2].target_page

---------------------------------------------------------------------------
(* Properties of the blocks of one extract_content call, checked under     *)
(* Spec                                                                    *)

\* the pages the call selects, as parse_pages gives them
SelectedPages == parse_pages(call.pages, Len(CalledPages)).value

\* the lines of the string the call returns
ReturnedLines == join(ret.value)

IsPageLine(line) == line.kind = "Page"

\* the 'Page N:' headers of the returned string, in their order
PageHeaders == SelectSeq(ReturnedLines, IsPageLine)

\* the positions of the headers in the returned string
HeaderPositions == {i \in DOMAIN ReturnedLines : IsPageLine(ReturnedLines[i])}

\* C21: the returned string has one 'Page N:' block per selected page, each
\* page once, in ascending order of page number, and an empty line between
\* one block and the next.
C21_OneBlockPerSelectedPageInOrder ==
    (ContentDone /\ ret.exc = "none")
        => /\ Len(PageHeaders) = Len(SelectedPages)
           /\ \A i \in DOMAIN PageHeaders : PageHeaders[i].n = SelectedPages[i] + 1
           /\ \A i, j \in DOMAIN PageHeaders :
                  i < j => PageHeaders[i].n < PageHeaders[j].n
           /\ \A i \in DOMAIN ret.value :
                  /\ IsPageLine(ret.value[i][1])
                  /\ \A k \in 2..Len(ret.value[i]) : ~IsPageLine(ret.value[i][k])
           /\ \A i \in HeaderPositions :
                  i > 1 => ReturnedLines[i - 1] = Line("", 0, <<>>, None)
           /\ ReturnedLines # <<>> => 1 \in HeaderPositions

\* C21's case: the pages asked for as "2,1" on a document of two pages
C21_Witness ==
    /\ ContentDone
    /\ ret.exc = "none"
    /\ call.pages = Some(<<"2", ",", "1">>)
    /\ Len(CalledPages) = 2
    /\ Len(PageHeaders) = 2
    /\ PageHeaders[1].n = 1
    /\ PageHeaders[2].n = 2

---------------------------------------------------------------------------
(* Properties of the order of the resolution rules, checked under          *)
(* SpecLinks                                                               *)

\* C26: a raw target that is no named-destination key and contains "indd:"
\* is never resolved by the generic rule: the link has no page whenever no
\* integer follows the marker or the last integer after the marker is no key
\* of the xref table, even if the first integer of the whole string is one.
C26_InddExcludesGenericRule ==
    (/\ LinksDone
     /\ RawTarget \notin DOMAIN named_destinations_mapping
     /\ contains(RawTarget, Marker)
     /\ \/ ~HasInteger(AfterMarker(RawTarget))
        \/ LastInteger(AfterMarker(RawTarget)) \notin DOMAIN xref_to_page_mapping)
        => /\ Len(ret) = 1
           /\ ret[1].target_page = None

---------------------------------------------------------------------------
(* Properties of fetch_page, checked under SpecFetch                       *)

FetchDone == pc.at = "done"

\* the responses before the last one
EarlierResponses == SubSeq(session, 1, Len(session) - 1)

Failed(response) == response.kind # "ok"

\* what holds of the requests and of the result in every state
FetchSafe ==
    /\ Len(session) <= call.max_retries + 1
    /\ \A i \in DOMAIN EarlierResponses : Failed(EarlierResponses[i])
    /\ FetchDone
          => /\ session # <<>>
             /\ IF Failed(session[Len(session)])
                THEN Len(session) = call.max_retries + 1 /\ ret = Some("")
                ELSE ret = Some(session[Len(session)].text)
    /\ ~FetchDone => ret = None

\* C25: fetch_page makes at most max_retries + 1 requests, stops at the
\* first successful response and returns its body, returns "" after
\* max_retries + 1 failures in a row without raising, and always ends.
C25_FetchPageIsBounded == []FetchSafe /\ <>FetchDone

\* C25's case: every request of a call with three retries has failed
C25_Witness ==
    /\ FetchDone
    /\ call.max_retries = 3
    /\ Len(session) = 4
    /\ \A i \in DOMAIN session : Failed(session[i])
    /\ ret = Some("")

---------------------------------------------------------------------------
(* Properties of ensure_nccn_index, checked under SpecIndex                *)

IndexCalled == pc = "call" /\ call.op = "ensure_nccn_index"

CacheExists == call.output_file \in DOMAIN files

\* the cache does not spare the scraping (line 387)
MustScrape == ~check_cache_file(files, call.output_file).is_valid

\* every fetch of every page of the site fails
EveryFetchFails ==
    call.site.client = "made"
    /\ \A i \in Categories : call.site.categories[i].kind = "down"

\* the scraping gets nothing from the site: the client cannot be made, or
\* each category raises or has all its fetches fail
ScrapingFails ==
    \/ call.site.client = "raises"
    \/ \A i \in Categories : call.site.categories[i].kind # "up"

\* C24: when the scraping fails and a cache file exists, the call leaves
\* the file as it is and returns what the file holds, in particular when
\* every page fetch fails; {} is returned only when there is no cache file.
C24_FailedScrapeUsesCache ==
    [][(IndexCalled /\ MustScrape /\ (ScrapingFails \/ EveryFetchFails))
          => /\ CacheExists
                => /\ files' = files
                   /\ ret' = Some(yaml_safe_load(files[call.output_file].content))
             /\ ret' = Some(EmptyData) => ~CacheExists]_vars

---------------------------------------------------------------------------
(* Properties of the downloads, checked under SpecDownload                 *)

DownloadToolDone == pc = "done" /\ call.op = "download_pdf tool"

\* what NCCNDownloader.download_pdf gives on the call the tool makes: the
\* tool's downloader, the credentials of the environment, skip_if_exists
DownloaderOutcome ==
    download_pdf(downloader_instance(call.env), call.url, call.env.username,
                 call.env.password, TRUE, files, call.script, <<>>).ret

\* C22: the tool returns 'PDF downloaded successfully: <path>' exactly when
\* NCCNDownloader.download_pdf succeeds, the file that is already there and
\* skipped included, and a failure message otherwise.
C22_ToolReportsDownloaderOutcome ==
    DownloadToolDone
        => /\ (ret[1].kind = "downloaded") <=> DownloaderOutcome.success
           /\ DownloaderOutcome.success
                 => ret[1].text = <<"PDF downloaded successfully: ",
                                    DownloaderOutcome.filename>>
           /\ ~DownloaderOutcome.success
                 => ret[1].kind = "failed" \/ ret[1].kind = "error"

DownloadPdfDone == pc = "done" /\ call.op = "download_pdf"

IsLogin(done) == done = "login"

\* the calls of login made on the session
Logins == Len(SelectSeq(session, IsLogin))

\* C23: one call of NCCNDownloader.download_pdf from outside makes at most
\* one login, whatever the server answers after the login and whether the
\* credentials are arguments of the call or stored in the downloader.
C23_AtMostOneLoginPerCall == DownloadPdfDone => Logins <= 1

=============================================================================
